---- MODULE Spec2Model ----
(***************************************************************************)
(* Model of backend/production_server.py: the Flask request handlers of   *)
(* the Quantum Quest backend and the REST store (Supabase) they talk to.  *)
(*                                                                         *)
(* A handler is a sequence of blocking outbound calls.  Each action below *)
(* is one outbound call of one handler together with the handler's code   *)
(* up to its next outbound call or its return.  The answer of the store   *)
(* to a call is an input: the call raises (store unreachable) or returns  *)
(* one of the HTTP statuses of Statuses; a 200 answer to a read carries   *)
(* the rows the store holds, a 2xx answer to a write has been applied.    *)
(***************************************************************************)
EXTENDS Integers, Sequences, FiniteSets, TLC

VARIABLES
    configured,            \* SUPABASE_CONFIGURED
    workers,               \* the request threads the server runs
    users,                 \* store table users
    leaderboard_entries,   \* store table leaderboard_entries
    game_sessions,         \* store table game_sessions
    quantum_measurements,  \* store table quantum_measurements
    user_achievements,     \* store table user_achievements
    pc,                    \* per thread: position in its handler
    req,                   \* per thread: the request being handled
    loc,                   \* per thread: the handler's local variables
    calls,                 \* per thread: outbound calls issued for the request
    resp,                  \* per thread: the response returned
    served                 \* number of requests accepted so far

store == <<users, leaderboard_entries, game_sessions, quantum_measurements,
           user_achievements>>
vars == <<configured, workers, users, leaderboard_entries, game_sessions,
          quantum_measurements, user_achievements, pc, req, loc, calls, resp,
          served>>

----------------------------------------------------------------------------
(* Bounds of the model *)

MaxRequests == 2          \* requests served in one behaviour

Threads == {1, 2}

----------------------------------------------------------------------------
(* Values *)

NoId == 0                 \* Python None where an id is expected
NoneStr == "None"         \* Python None where a string is expected
Absent == -1              \* a numeric request field the client did not send

HTTP_OK == 200
HTTP_CREATED == 201
HTTP_BAD_REQUEST == 400
HTTP_NOT_FOUND == 404
HTTP_SERVER_ERROR == 500

\* statuses the store answers a call of the given method with: the success
\* status of the method, a success status the handlers do not accept (on the
\* calls whose status a handler reads), a failure
Statuses(method) ==
    IF method = "POST" THEN {HTTP_CREATED, 204, HTTP_SERVER_ERROR}
    ELSE IF method = "GET" THEN {HTTP_OK, 204, HTTP_SERVER_ERROR}
    ELSE {HTTP_OK, HTTP_SERVER_ERROR}

Raise == [exc |-> TRUE, status |-> 0, rep |-> FALSE]

\* what one outbound call can come to.  With no SUPABASE_URL the request URL is
\* "/users..." without a scheme and requests raises before sending anything.
\* rep: a write answered with the created rows (Prefer: return=representation)
Outcomes(method) ==
    IF configured
    THEN {Raise} \cup {[exc |-> FALSE, status |-> s, rep |-> r] :
                          s \in Statuses(method), r \in BOOLEAN}
    ELSE {Raise}

\* outcomes of a call whose answer body is the store's rows or is never read
OutcomesNoBody(method) == {o \in Outcomes(method) : o.rep = FALSE}

Is2xx(s) == s >= 200 /\ s < 300

\* the store applied the write
Applied(o) == ~o.exc /\ Is2xx(o.status)

\* one outbound call as the store saw it: the table, the filter of the URL, how
\* it ended, and for a read the number of rows the store held for the filter
Call(method, table, filter, o, matched) ==
    [method |-> method, table |-> table, filter |-> filter, exc |-> o.exc,
     status |-> o.status, matched |-> matched]

----------------------------------------------------------------------------
(* Requests, locals and responses *)

NoReq ==
    [route |-> "none", method |-> "none", hasBody |-> FALSE, email |-> NoneStr,
     user_id |-> NoId, session_id |-> NoId, completion_time |-> Absent,
     total_score |-> Absent, current |-> Absent]

NoLoc ==
    [email |-> NoneStr, user_id |-> NoId, rows |-> <<>>, enriched |-> <<>>]

NoResp ==
    [code |-> 0, success |-> "none", error |-> "none", message |-> "none",
     source |-> "none", hasEntries |-> FALSE, entries |-> <<>>,
     database |-> "none", user_id |-> NoId, count |-> Absent,
     session_id |-> NoId, score |-> Absent, time |-> Absent]

Json(fields) == [x \in DOMAIN NoResp |->
                    IF x \in DOMAIN fields THEN fields[x] ELSE NoResp[x]]

Request(fields) == [x \in DOMAIN NoReq |->
                       IF x \in DOMAIN fields THEN fields[x] ELSE NoReq[x]]

Locals(fields) == [x \in DOMAIN NoLoc |->
                      IF x \in DOMAIN fields THEN fields[x] ELSE NoLoc[x]]

\* thread t takes a request: only while the server accepts more
Accept(t, r) ==
    /\ t \in workers
    /\ pc[t] = "idle"
    /\ served < MaxRequests
    /\ served' = served + 1
    /\ req' = [req EXCEPT ![t] = r]

\* thread t returns response r after issuing the calls cs
Return(t, cs, r) ==
    /\ pc' = [pc EXCEPT ![t] = "done"]
    /\ calls' = [calls EXCEPT ![t] = calls[t] \o cs]
    /\ resp' = [resp EXCEPT ![t] = r]

\* thread t goes on to its next outbound call
Goto(t, cs, label) ==
    /\ pc' = [pc EXCEPT ![t] = label]
    /\ calls' = [calls EXCEPT ![t] = calls[t] \o cs]
    /\ resp' = resp

----------------------------------------------------------------------------
(* GET /health *)

\* db_status with "every other status" read as unreachable
db_status_unreachable(o) ==
    IF o.exc \/ o.status # HTTP_OK THEN "disconnected" ELSE "connected"

db_status(o) ==
    IF o.exc THEN "disconnected"
    ELSE IF o.status = HTTP_OK THEN "connected" ELSE "error"

health_check(t) ==
    /\ Accept(t, Request([route |-> "health", method |-> "GET"]))
    /\ \E o \in OutcomesNoBody("GET") :
          Return(t, <<Call("GET", "users", "select=count", o, Len(users))>>,
                 Json([code |-> HTTP_OK, message |-> "healthy",
                       database |-> db_status(o)]))
    /\ UNCHANGED <<configured, workers, store, loc>>

----------------------------------------------------------------------------
(* GET /api/auth/user *)

get_user(t) ==
    /\ Accept(t, Request([route |-> "auth_user", method |-> "GET"]))
    /\ \E o \in OutcomesNoBody("GET") :
          Return(t, <<Call("GET", "users", "limit=1", o, IF users = <<>> THEN 0 ELSE 1)>>,
                 IF o.exc
                 THEN Json([code |-> HTTP_SERVER_ERROR,
                            error |-> "Failed to get user"])
                 ELSE IF o.status = HTTP_OK /\ users # <<>>
                 THEN Json([code |-> HTTP_OK, user_id |-> users[1].id])
                 ELSE Json([code |-> HTTP_NOT_FOUND, error |-> "No user found"]))
    /\ UNCHANGED <<configured, workers, store, loc>>

----------------------------------------------------------------------------
(* Store tables: the REST filters the handlers use *)

User(id, email, username) ==
    [id |-> id, email |-> email, username |-> username, total_score |-> 0,
     games_completed |-> 0, total_playtime |-> 0, best_completion_time |-> Absent,
     last_login |-> "never"]

\* users?email=eq.{email}: a null email is formatted as the text None, which no
\* stored null equals
UsersByEmail(email) ==
    IF email = NoneStr THEN <<>> ELSE SelectSeq(users, LAMBDA u : u.email = email)

\* users?id=eq.{id}
UsersById(id) ==
    IF id = NoId THEN <<>> ELSE SelectSeq(users, LAMBDA u : u.id = id)

\* the id the store gives the next row of a table
NextId(table) == Len(table) + 1

\* PATCH users?id=eq.{id} with the given fields
PatchUsers(id, fields) ==
    [i \in 1..Len(users) |->
        IF id # NoId /\ users[i].id = id
        THEN [x \in DOMAIN users[i] |->
                 IF x \in DOMAIN fields THEN fields[x] ELSE users[i][x]]
        ELSE users[i]]

----------------------------------------------------------------------------
(* POST /api/auth/signup *)

Emails == {"a@q"}

\* the email field of a JSON body: a string, empty, or not there
EmailFields == Emails \cup {"", NoneStr}

\* email.split("@")[0] if email else "player"
default_username(email) ==
    IF email = "a@q" THEN "a" ELSE "player"

AuthRequests(routes) ==
    {Request([route |-> r, method |-> m, hasBody |-> b, email |-> e]) :
        r \in routes, m \in {"POST"}, b \in {TRUE}, e \in EmailFields}
    \cup {Request([route |-> r, method |-> "POST"]) : r \in routes}
    \cup {Request([route |-> r, method |-> "OPTIONS"]) : r \in routes}

\* "User already exists": what the handler makes of the existence check
user_exists(o, email) == o.status = HTTP_OK /\ UsersByEmail(email) # <<>>

signup(t) ==
    \E r \in AuthRequests({"signup"}) :
      /\ Accept(t, r)
      /\ IF r.method = "OPTIONS"
         THEN Return(t, <<>>, Json([code |-> HTTP_OK])) /\ loc' = loc
         ELSE IF ~r.hasBody
         THEN /\ Return(t, <<>>, Json([code |-> HTTP_SERVER_ERROR,
                                       success |-> "false",
                                       error |-> "Signup failed"]))
              /\ loc' = loc
         ELSE \E o \in OutcomesNoBody("GET") :
                LET c == <<Call("GET", "users", "email=eq", o, Len(UsersByEmail(r.email)))>> IN
                IF o.exc
                THEN /\ Return(t, c, Json([code |-> HTTP_SERVER_ERROR,
                                           success |-> "false",
                                           error |-> "Signup failed"]))
                     /\ loc' = loc
                ELSE IF user_exists(o, r.email)
                THEN /\ Return(t, c, Json([code |-> HTTP_BAD_REQUEST,
                                           success |-> "false",
                                           error |-> "User already exists"]))
                     /\ loc' = loc
                ELSE /\ Goto(t, c, "signup_create")
                     /\ loc' = [loc EXCEPT ![t] = Locals([email |-> r.email])]
      /\ UNCHANGED <<configured, workers, store>>

signup_create(t) ==
    /\ pc[t] = "signup_create"
    /\ \E o \in Outcomes("POST") :
         LET c == <<Call("POST", "users", "", o, 0)>>
             id == NextId(users)
             row == User(id, loc[t].email, default_username(loc[t].email))
         IN
         /\ users' = IF Applied(o) THEN Append(users, row) ELSE users
         /\ IF o.exc
            THEN /\ Return(t, c, Json([code |-> HTTP_SERVER_ERROR,
                                       success |-> "false",
                                       error |-> "Signup failed"]))
                 /\ loc' = loc
            ELSE IF o.status \in {HTTP_OK, HTTP_CREATED}
            THEN /\ Goto(t, c, "signup_leaderboard")
                 /\ loc' = [loc EXCEPT ![t].user_id =
                               IF o.rep THEN id ELSE NoId]
            ELSE /\ Return(t, c, Json([code |-> HTTP_SERVER_ERROR,
                                       success |-> "false",
                                       error |-> "Failed to create user"]))
                 /\ loc' = loc
    /\ UNCHANGED <<configured, workers, leaderboard_entries, game_sessions,
                   quantum_measurements, user_achievements, req, served>>

LeaderboardEntry(user_id, category, total_score, completion_time) ==
    [user_id |-> user_id, category |-> category, total_score |-> total_score,
     completion_time |-> completion_time]

signup_leaderboard(t) ==
    /\ pc[t] = "signup_leaderboard"
    /\ \E o \in OutcomesNoBody("POST") :
         /\ leaderboard_entries' =
               IF Applied(o)
               THEN Append(leaderboard_entries,
                           LeaderboardEntry(loc[t].user_id, "total_score", 0, Absent))
               ELSE leaderboard_entries
         /\ Return(t, <<Call("POST", "leaderboard_entries", "", o, 0)>>,
                   Json([code |-> HTTP_OK, success |-> "true",
                         message |-> "Account created successfully!",
                         user_id |-> loc[t].user_id]))
    /\ UNCHANGED <<configured, workers, users, game_sessions,
                   quantum_measurements, user_achievements, req, loc, served>>

----------------------------------------------------------------------------
(* POST /api/auth/login and its alias POST /api/auth/signin *)

login(t) ==
    \E r \in AuthRequests({"login", "signin"}) :
      /\ Accept(t, r)
      /\ IF r.method = "OPTIONS"
         THEN Return(t, <<>>, Json([code |-> HTTP_OK])) /\ loc' = loc
         ELSE IF ~r.hasBody
         THEN /\ Return(t, <<>>, Json([code |-> HTTP_SERVER_ERROR,
                                       success |-> "false",
                                       error |-> "Login failed"]))
              /\ loc' = loc
         ELSE IF r.email \in {"", NoneStr}
         THEN /\ Return(t, <<>>, Json([code |-> HTTP_BAD_REQUEST,
                                       success |-> "false",
                                       error |-> "Email is required"]))
              /\ loc' = loc
         ELSE \E o \in OutcomesNoBody("GET") :
                LET c == <<Call("GET", "users", "email=eq", o, Len(UsersByEmail(r.email)))>>
                    found == UsersByEmail(r.email)
                IN
                IF o.exc
                THEN /\ Return(t, c, Json([code |-> HTTP_SERVER_ERROR,
                                           success |-> "false",
                                           error |-> "Login failed"]))
                     /\ loc' = loc
                ELSE IF o.status = HTTP_OK
                THEN IF found # <<>>
                     THEN /\ Goto(t, c, "login_update")
                          /\ loc' = [loc EXCEPT ![t] =
                                        Locals([email |-> r.email,
                                                user_id |-> found[1].id])]
                     ELSE /\ Return(t, c, Json([code |-> HTTP_NOT_FOUND,
                                                success |-> "false",
                                                error |-> "User not found"]))
                          /\ loc' = loc
                ELSE /\ Return(t, c, Json([code |-> HTTP_SERVER_ERROR,
                                           success |-> "false",
                                           error |-> "Database connection failed"]))
                     /\ loc' = loc
      /\ UNCHANGED <<configured, workers, store>>

login_update(t) ==
    /\ pc[t] = "login_update"
    /\ \E o \in OutcomesNoBody("PATCH") :
         /\ users' = IF Applied(o)
                     THEN PatchUsers(loc[t].user_id, [last_login |-> "now"])
                     ELSE users
         /\ Return(t, <<Call("PATCH", "users", "id=eq", o, 0)>>,
                   Json([code |-> HTTP_OK, success |-> "true",
                         user_id |-> loc[t].user_id]))
    /\ UNCHANGED <<configured, workers, leaderboard_entries, game_sessions,
                   quantum_measurements, user_achievements, req, loc, served>>

----------------------------------------------------------------------------
(* GET /api/leaderboard/score and GET /api/leaderboard/speed *)

LeaderboardLimit == 10

\* the first n rows (limit=n)
Limit(rows, n) == SubSeq(rows, 1, IF Len(rows) < n THEN Len(rows) ELSE n)

\* order=total_score.desc
ScoreDesc(a, b) == a.total_score >= b.total_score

\* order=completion_time.asc, nulls last
TimeAsc(a, b) ==
    \/ b.completion_time = Absent
    \/ a.completion_time # Absent /\ a.completion_time <= b.completion_time

\* a goes strictly before b in the order asked for
Before(a, b, order) ==
    IF order = "total_score.desc"
    THEN ScoreDesc(a, b) /\ ~ScoreDesc(b, a)
    ELSE TimeAsc(a, b) /\ ~TimeAsc(b, a)

RECURSIVE Insert(_, _, _)
\* row put into the ordered rows before the first one it goes before
Insert(row, rows, order) ==
    IF rows = <<>> THEN <<row>>
    ELSE IF Before(row, rows[1], order) THEN <<row>> \o rows
    ELSE <<rows[1]>> \o Insert(row, Tail(rows), order)

RECURSIVE OrderBy(_, _)
\* order=<column>: rows the column does not tell apart keep the table's order
OrderBy(rows, order) ==
    IF rows = <<>> THEN <<>>
    ELSE Insert(rows[Len(rows)], OrderBy(SubSeq(rows, 1, Len(rows) - 1), order),
                order)

\* leaderboard_entries?category=eq.{category}&order=...&limit=10
QueryLeaderboard(category) ==
    LET rows == SelectSeq(leaderboard_entries, LAMBDA e : e.category = category)
    IN  Limit(IF category = "total_score" THEN OrderBy(rows, "total_score.desc")
              ELSE OrderBy(rows, "completion_time.asc"), LeaderboardLimit)

\* users?order=total_score.desc&limit=10
QueryUsersByScore == Limit(OrderBy(users, "total_score.desc"), LeaderboardLimit)

Entry(rank, user_id, username, total_score, completion_time) ==
    [rank |-> rank, user_id |-> user_id, username |-> username,
     total_score |-> total_score, completion_time |-> completion_time]

\* the demo rows name their users demo-user-<n>
DemoUserId(n) == 0 - n

ScoreDemo ==
    <<Entry(1, NoId, "QuantumAlice", 4500, 180),
      Entry(2, NoId, "EntangleCharlie", 3200, 200),
      Entry(3, NoId, "SuperpositionBob", 2800, 240)>>

ScoreDemoOnError ==
    <<Entry(1, NoId, "QuantumAlice", 4500, 180),
      Entry(2, NoId, "EntangleCharlie", 3200, 200)>>

SpeedDemo ==
    <<Entry(1, DemoUserId(1), "SpeedyQuantum", 1200, 180),
      Entry(2, DemoUserId(2), "FastAlice", 1000, 220),
      Entry(3, DemoUserId(3), "QuickBob", 800, 260)>>

SpeedDemoOnError ==
    <<Entry(1, DemoUserId(1), "SpeedyQuantum", 1200, 180),
      Entry(2, DemoUserId(2), "FastAlice", 1000, 220)>>

Leaderboard(entries, source) ==
    Json([code |-> HTTP_OK, hasEntries |-> TRUE, entries |-> entries,
          source |-> source])

\* the users tier of the score leaderboard
mock_leaderboard(rows) ==
    [i \in 1..Len(rows) |->
        Entry(i, NoId, rows[i].username, rows[i].total_score,
              rows[i].best_completion_time)]

\* enrich with the rank taken as the loop index itself
enrich_zero_based(row, rank, o) ==
    LET found == UsersById(row.user_id) IN
    Entry(rank - 1, row.user_id,
          IF o.status = HTTP_OK /\ found # <<>> THEN found[1].username ELSE "none",
          row.total_score, row.completion_time)

\* one turn of the enrichment loop: the row gets its rank, and the display
\* fields when the lookup found the user
enrich(row, rank, o) ==
    LET found == UsersById(row.user_id) IN
    Entry(rank, row.user_id,
          IF o.status = HTTP_OK /\ found # <<>> THEN found[1].username ELSE "none",
          row.total_score, row.completion_time)

get_score_leaderboard(t) ==
    /\ Accept(t, Request([route |-> "leaderboard_score", method |-> "GET"]))
    /\ \E o \in OutcomesNoBody("GET") :
         LET c == <<Call("GET", "leaderboard_entries", "category=eq.total_score", o,
                        Len(QueryLeaderboard("total_score")))>>
             rows == QueryLeaderboard("total_score")
         IN
         IF o.exc
         THEN Return(t, c, Leaderboard(ScoreDemoOnError, "demo")) /\ loc' = loc
         ELSE IF o.status = HTTP_OK /\ rows # <<>>
         THEN /\ Goto(t, c, "score_enrich")
              /\ loc' = [loc EXCEPT ![t] = Locals([rows |-> rows])]
         ELSE Goto(t, c, "score_users") /\ loc' = loc
    /\ UNCHANGED <<configured, workers, store>>

get_score_leaderboard_enrich(t) ==
    /\ pc[t] = "score_enrich"
    /\ \E o \in OutcomesNoBody("GET") :
         LET c == <<Call("GET", "users", "id=eq", o,
                        Len(UsersById(loc[t].rows[Len(loc[t].enriched) + 1].user_id)))>>
             i == Len(loc[t].enriched) + 1
             done == Append(loc[t].enriched, enrich(loc[t].rows[i], i, o))
         IN
         IF o.exc
         THEN Return(t, c, Leaderboard(ScoreDemoOnError, "demo")) /\ loc' = loc
         ELSE IF i < Len(loc[t].rows)
         THEN /\ Goto(t, c, "score_enrich")
              /\ loc' = [loc EXCEPT ![t].enriched = done]
         ELSE /\ Return(t, c, Leaderboard(done, "database"))
              /\ loc' = [loc EXCEPT ![t].enriched = done]
    /\ UNCHANGED <<configured, workers, store, req, served>>

\* score_from_users with the handler's except clause reporting the failure
score_from_users_raising(o) ==
    IF o.exc THEN Json([code |-> HTTP_SERVER_ERROR, error |-> "exception"])
    ELSE IF o.status = HTTP_OK
    THEN Leaderboard(mock_leaderboard(QueryUsersByScore), "user_stats")
    ELSE Leaderboard(ScoreDemo, "demo")

\* the answer of the users tier
score_from_users(o) ==
    IF o.exc THEN Leaderboard(ScoreDemoOnError, "demo")
    ELSE IF o.status = HTTP_OK
    THEN Leaderboard(mock_leaderboard(QueryUsersByScore), "user_stats")
    ELSE Leaderboard(ScoreDemo, "demo")

get_score_leaderboard_users(t) ==
    /\ pc[t] = "score_users"
    /\ \E o \in OutcomesNoBody("GET") :
         Return(t, <<Call("GET", "users", "order=total_score.desc", o,
                         Len(QueryUsersByScore))>>, score_from_users(o))
    /\ UNCHANGED <<configured, workers, store, req, loc, served>>

get_speed_leaderboard(t) ==
    /\ Accept(t, Request([route |-> "leaderboard_speed", method |-> "GET"]))
    /\ \E o \in OutcomesNoBody("GET") :
         LET c == <<Call("GET", "leaderboard_entries", "category=eq.completion_time", o,
                        Len(QueryLeaderboard("completion_time")))>>
             rows == QueryLeaderboard("completion_time")
         IN
         IF o.exc
         THEN Return(t, c, Leaderboard(SpeedDemoOnError, "demo")) /\ loc' = loc
         ELSE IF o.status = HTTP_OK /\ rows # <<>>
         THEN /\ Goto(t, c, "speed_enrich")
              /\ loc' = [loc EXCEPT ![t] = Locals([rows |-> rows])]
         ELSE Return(t, c, Leaderboard(SpeedDemo, "demo")) /\ loc' = loc
    /\ UNCHANGED <<configured, workers, store>>

get_speed_leaderboard_enrich(t) ==
    /\ pc[t] = "speed_enrich"
    /\ \E o \in OutcomesNoBody("GET") :
         LET c == <<Call("GET", "users", "id=eq", o,
                        Len(UsersById(loc[t].rows[Len(loc[t].enriched) + 1].user_id)))>>
             i == Len(loc[t].enriched) + 1
             done == Append(loc[t].enriched, enrich(loc[t].rows[i], i, o))
         IN
         IF o.exc
         THEN Return(t, c, Leaderboard(SpeedDemoOnError, "demo")) /\ loc' = loc
         ELSE IF i < Len(loc[t].rows)
         THEN /\ Goto(t, c, "speed_enrich")
              /\ loc' = [loc EXCEPT ![t].enriched = done]
         ELSE /\ Return(t, c, Leaderboard(done, "database"))
              /\ loc' = [loc EXCEPT ![t].enriched = done]
    /\ UNCHANGED <<configured, workers, store, req, served>>

----------------------------------------------------------------------------
(* GET /api/users and POST /api/users *)

get_users(t) ==
    /\ Accept(t, Request([route |-> "users", method |-> "GET"]))
    /\ \E o \in OutcomesNoBody("GET") :
         Return(t, <<Call("GET", "users", "", o, Len(users))>>,
                IF o.exc
                THEN Json([code |-> HTTP_SERVER_ERROR, error |-> "exception"])
                ELSE IF o.status = HTTP_OK
                THEN Json([code |-> HTTP_OK, count |-> Len(users)])
                ELSE Json([code |-> o.status, error |-> "Database error"]))
    /\ UNCHANGED <<configured, workers, store, loc>>

create_user(t) ==
    \E r \in {Request([route |-> "users", method |-> "POST", hasBody |-> TRUE,
                       email |-> e]) : e \in {"a@q", NoneStr}}
             \cup {Request([route |-> "users", method |-> "POST"])} :
      /\ Accept(t, r)
      /\ \E o \in Outcomes("POST") :
           LET id == NextId(users) IN
           \* the body is forwarded as it came; without one there is no row
           /\ users' = IF Applied(o) /\ r.hasBody
                       THEN Append(users, User(id, r.email, NoneStr))
                       ELSE users
           /\ Return(t, <<Call("POST", "users", "", o, 0)>>,
                     IF o.exc
                     THEN Json([code |-> HTTP_SERVER_ERROR, error |-> "exception"])
                     ELSE IF o.status \in {HTTP_OK, HTTP_CREATED}
                     THEN Json([code |-> HTTP_OK, success |-> "true",
                                user_id |-> IF o.rep /\ r.hasBody THEN id ELSE NoId])
                     ELSE Json([code |-> o.status, error |-> "Database error"]))
      /\ UNCHANGED <<configured, workers, leaderboard_entries, game_sessions,
                     quantum_measurements, user_achievements, loc>>

----------------------------------------------------------------------------
(* POST /api/game/start *)

\* the id of a session the store did not return: demo-session-<timestamp>
DemoSession == 0 - 1

Session(id, user_id) ==
    [id |-> id, user_id |-> user_id, current_room |-> "superposition",
     is_completed |-> FALSE]

\* PATCH game_sessions?id=eq.{id} with the given fields
PatchSessions(id, fields) ==
    [i \in 1..Len(game_sessions) |->
        IF id # NoId /\ game_sessions[i].id = id
        THEN [x \in DOMAIN game_sessions[i] |->
                 IF x \in DOMAIN fields THEN fields[x] ELSE game_sessions[i][x]]
        ELSE game_sessions[i]]

\* the handlers' except clause: {"error": str(e)}, 500.  A request body that
\* is not a JSON object gets there, as data.get raises
handler_error == Json([code |-> HTTP_SERVER_ERROR, error |-> "exception"])

UserIds == {NoId, 1}
SessionIds == {NoId, 1}

start_game(t) ==
    \E r \in {Request([route |-> "game_start", method |-> "POST",
                       hasBody |-> TRUE, user_id |-> u]) : u \in UserIds}
             \cup {Request([route |-> "game_start", method |-> "POST"])} :
      /\ Accept(t, r)
      /\ IF ~r.hasBody
         THEN Return(t, <<>>, handler_error) /\ game_sessions' = game_sessions
         ELSE \E o \in Outcomes("POST") :
                LET id == NextId(game_sessions) IN
                /\ game_sessions' =
                      IF Applied(o)
                      THEN Append(game_sessions, Session(id, r.user_id))
                      ELSE game_sessions
                /\ Return(t, <<Call("POST", "game_sessions", "", o, 0)>>,
                          Json([code |-> HTTP_OK, success |-> "true",
                                session_id |->
                                   IF ~o.exc /\ o.status \in {HTTP_OK, HTTP_CREATED}
                                      /\ o.rep
                                   THEN id ELSE DemoSession]))
      /\ UNCHANGED <<configured, workers, users, leaderboard_entries,
                     quantum_measurements, user_achievements, loc>>

----------------------------------------------------------------------------
(* POST /api/game/complete *)

DefaultCompletionTime == 300
DefaultTotalScore == 1000

\* data.get(key, default)
Get(value, default) == IF value = Absent THEN default ELSE value

CompleteRequests ==
    {Request([route |-> "game_complete", method |-> "POST", hasBody |-> TRUE,
              user_id |-> u, session_id |-> u, completion_time |-> ct,
              total_score |-> sc, current |-> cur]) :
        u \in {1}, ct \in {Absent, 0, 7}, sc \in {50}, cur \in {Absent, 2}}
    \cup {Request([route |-> "game_complete", method |-> "POST"])}

\* the fields of the users patch: built from the client's current_* values
user_patch(r) ==
    [games_completed |-> Get(r.current, 0) + 1,
     total_score |-> Get(r.current, 0) + Get(r.total_score, DefaultTotalScore),
     total_playtime |->
        Get(r.current, 0) + Get(r.completion_time, DefaultCompletionTime),
     last_login |-> "now"]

complete_game(t) ==
    \E r \in CompleteRequests :
      /\ Accept(t, r)
      /\ IF ~r.hasBody
         THEN Return(t, <<>>, handler_error) /\ users' = users
         ELSE \E o \in OutcomesNoBody("PATCH") :
                /\ users' = IF Applied(o)
                            THEN PatchUsers(r.user_id, user_patch(r))
                            ELSE users
                /\ Goto(t, <<Call("PATCH", "users", "id=eq", o, 0)>>, "complete_leaderboard")
      /\ UNCHANGED <<configured, workers, leaderboard_entries, game_sessions,
                     quantum_measurements, user_achievements, loc>>

\* complete_game_leaderboard without the try around the insert: a raise ends
\* the handler in its except clause
complete_game_leaderboard_unguarded(t) ==
    /\ pc[t] = "complete_leaderboard"
    /\ \E o \in OutcomesNoBody("POST") :
         /\ leaderboard_entries' =
               IF Applied(o)
               THEN Append(leaderboard_entries,
                       LeaderboardEntry(req[t].user_id, "total_score",
                          Get(req[t].total_score, DefaultTotalScore),
                          Get(req[t].completion_time, DefaultCompletionTime)))
               ELSE leaderboard_entries
         /\ IF o.exc
            THEN Return(t, <<Call("POST", "leaderboard_entries", "", o, 0)>>,
                        handler_error)
            ELSE Goto(t, <<Call("POST", "leaderboard_entries", "", o, 0)>>,
                      "complete_session")
    /\ UNCHANGED <<configured, workers, users, game_sessions,
                   quantum_measurements, user_achievements, req, loc, served>>

complete_game_leaderboard(t) ==
    /\ pc[t] = "complete_leaderboard"
    /\ \E o \in OutcomesNoBody("POST") :
         /\ leaderboard_entries' =
               IF Applied(o)
               THEN Append(leaderboard_entries,
                       LeaderboardEntry(req[t].user_id, "total_score",
                          Get(req[t].total_score, DefaultTotalScore),
                          Get(req[t].completion_time, DefaultCompletionTime)))
               ELSE leaderboard_entries
         /\ Goto(t, <<Call("POST", "leaderboard_entries", "", o, 0)>>, "complete_session")
    /\ UNCHANGED <<configured, workers, users, game_sessions,
                   quantum_measurements, user_achievements, req, loc, served>>

complete_game_session(t) ==
    /\ pc[t] = "complete_session"
    /\ \E o \in OutcomesNoBody("PATCH") :
         /\ game_sessions' =
               IF Applied(o)
               THEN PatchSessions(req[t].session_id, [is_completed |-> TRUE])
               ELSE game_sessions
         /\ Return(t, <<Call("PATCH", "game_sessions", "id=eq", o, 0)>>,
                   Json([code |-> HTTP_OK, success |-> "true",
                         message |-> "Game completed successfully!",
                         score |-> Get(req[t].total_score, DefaultTotalScore),
                         time |-> Get(req[t].completion_time,
                                      DefaultCompletionTime)]))
    /\ UNCHANGED <<configured, workers, users, leaderboard_entries,
                   quantum_measurements, user_achievements, req, loc, served>>

----------------------------------------------------------------------------
(* POST /api/game/save-progress *)

\* progress_saved without the try around the patch: a raise reaches the
\* handler's except clause
progress_saved_unguarded(o) ==
    IF o.exc THEN handler_error
    ELSE Json([code |-> HTTP_OK, success |-> "true", message |-> "Progress saved"])

\* the response once the patch has been tried
progress_saved(o) ==
    Json([code |-> HTTP_OK, success |-> "true", message |-> "Progress saved"])

save_progress(t) ==
    \E r \in {Request([route |-> "save_progress", method |-> "POST",
                       hasBody |-> TRUE, session_id |-> sid]) : sid \in SessionIds}
             \cup {Request([route |-> "save_progress", method |-> "POST"])} :
      /\ Accept(t, r)
      /\ IF ~r.hasBody
         THEN Return(t, <<>>, handler_error) /\ game_sessions' = game_sessions
         ELSE \E o \in OutcomesNoBody("PATCH") :
                /\ game_sessions' =
                      IF Applied(o)
                      THEN PatchSessions(r.session_id,
                                         [current_room |-> "entanglement"])
                      ELSE game_sessions
                /\ Return(t, <<Call("PATCH", "game_sessions", "id=eq", o, 0)>>,
                          progress_saved(o))
      /\ UNCHANGED <<configured, workers, users, leaderboard_entries,
                     quantum_measurements, user_achievements, loc>>

----------------------------------------------------------------------------
(* POST /api/quantum/measurements *)

log_quantum_measurement(t) ==
    \E r \in {Request([route |-> "measurements", method |-> "POST",
                       hasBody |-> TRUE, session_id |-> sid]) : sid \in SessionIds}
             \cup {Request([route |-> "measurements", method |-> "POST"])} :
      /\ Accept(t, r)
      /\ IF ~r.hasBody
         THEN /\ Return(t, <<>>, handler_error)
              /\ quantum_measurements' = quantum_measurements
         ELSE \E o \in OutcomesNoBody("POST") :
                /\ quantum_measurements' =
                      IF Applied(o)
                      THEN Append(quantum_measurements,
                                  [session_id |-> r.session_id])
                      ELSE quantum_measurements
                /\ Return(t, <<Call("POST", "quantum_measurements", "", o, 0)>>,
                          Json([code |-> HTTP_OK, success |-> "true",
                                message |-> "Quantum measurement logged"]))
      /\ UNCHANGED <<configured, workers, users, leaderboard_entries,
                     game_sessions, user_achievements, loc>>

----------------------------------------------------------------------------
(* POST /api/achievements/unlock *)

\* game_sessions?id=eq.{id}&select=user_id
SessionsById(id) ==
    IF id = NoId THEN <<>>
    ELSE SelectSeq(game_sessions, LAMBDA g : g.id = id)

unlock_achievement(t) ==
    \E r \in {Request([route |-> "achievements", method |-> "POST",
                       hasBody |-> TRUE, user_id |-> u, session_id |-> sid]) :
                 u \in UserIds, sid \in SessionIds}
             \cup {Request([route |-> "achievements", method |-> "POST"])} :
      /\ Accept(t, r)
      /\ IF ~r.hasBody
         THEN Return(t, <<>>, handler_error) /\ loc' = loc
         ELSE IF r.user_id = NoId /\ r.session_id # NoId
         THEN \E o \in OutcomesNoBody("GET") :
                LET c == <<Call("GET", "game_sessions", "id=eq", o,
                               Len(SessionsById(r.session_id)))>>
                    sessions == SessionsById(r.session_id)
                    user_id == IF ~o.exc /\ o.status = HTTP_OK /\ sessions # <<>>
                               THEN sessions[1].user_id ELSE NoId
                IN
                IF user_id = NoId
                THEN /\ Return(t, c, Json([code |-> HTTP_BAD_REQUEST,
                                           error |-> "User ID required"]))
                     /\ loc' = loc
                ELSE /\ Goto(t, c, "unlock_save")
                     /\ loc' = [loc EXCEPT ![t] = Locals([user_id |-> user_id])]
         ELSE IF r.user_id = NoId
         THEN /\ Return(t, <<>>, Json([code |-> HTTP_BAD_REQUEST,
                                       error |-> "User ID required"]))
              /\ loc' = loc
         ELSE /\ Goto(t, <<>>, "unlock_save")
              /\ loc' = [loc EXCEPT ![t] = Locals([user_id |-> r.user_id])]
      /\ UNCHANGED <<configured, workers, store>>

unlock_achievement_save(t) ==
    /\ pc[t] = "unlock_save"
    /\ \E o \in OutcomesNoBody("POST") :
         /\ user_achievements' =
               IF Applied(o)
               THEN Append(user_achievements,
                           [user_id |-> loc[t].user_id,
                            session_id |-> req[t].session_id])
               ELSE user_achievements
         /\ Return(t, <<Call("POST", "user_achievements", "", o, 0)>>,
                   Json([code |-> HTTP_OK, success |-> "true",
                         message |-> "Achievement unlocked"]))
    /\ UNCHANGED <<configured, workers, users, leaderboard_entries,
                   game_sessions, quantum_measurements, req, loc, served>>

----------------------------------------------------------------------------
(* The thread hands the response to the client and is free again *)

Respond(t) ==
    /\ pc[t] = "done"
    /\ pc' = [pc EXCEPT ![t] = "idle"]
    /\ req' = [req EXCEPT ![t] = NoReq]
    /\ loc' = [loc EXCEPT ![t] = NoLoc]
    /\ calls' = [calls EXCEPT ![t] = <<>>]
    /\ resp' = [resp EXCEPT ![t] = NoResp]
    /\ UNCHANGED <<configured, workers, store, served>>

----------------------------------------------------------------------------
(* Initial states *)

\* the store is not this service's: it holds rows before the first request.
\* Entries of category completion_time are written by no handler of this
\* service.
InitStores ==
    {[users |-> <<>>, leaderboard_entries |-> <<>>],
     [users |-> <<User(1, "a@q", "a")>>,
      leaderboard_entries |-> <<LeaderboardEntry(1, "total_score", 50, 7)>>],
     [users |-> <<User(1, "a@q", "a")>>,
      leaderboard_entries |-> <<LeaderboardEntry(2, "completion_time", 50, 9),
                                LeaderboardEntry(1, "completion_time", 80, 7)>>]}

\* Spec serves its requests one after the other, on one thread.
Init ==
    /\ configured \in BOOLEAN
    /\ workers = {1}
    /\ \E s \in InitStores :
         /\ users = s.users
         /\ leaderboard_entries = s.leaderboard_entries
    /\ ~configured => users = <<>>
    /\ game_sessions = <<>>
    /\ quantum_measurements = <<>>
    /\ user_achievements = <<>>
    /\ pc = [t \in Threads |-> "idle"]
    /\ req = [t \in Threads |-> NoReq]
    /\ loc = [t \in Threads |-> NoLoc]
    /\ calls = [t \in Threads |-> <<>>]
    /\ resp = [t \in Threads |-> NoResp]
    /\ served = 0

Next ==
    \/ \E t \in Threads : health_check(t)
    \/ \E t \in Threads : get_user(t)
    \/ \E t \in Threads : signup(t)
    \/ \E t \in Threads : signup_create(t)
    \/ \E t \in Threads : signup_leaderboard(t)
    \/ \E t \in Threads : login(t)
    \/ \E t \in Threads : login_update(t)
    \/ \E t \in Threads : get_score_leaderboard(t)
    \/ \E t \in Threads : get_score_leaderboard_enrich(t)
    \/ \E t \in Threads : get_score_leaderboard_users(t)
    \/ \E t \in Threads : get_speed_leaderboard(t)
    \/ \E t \in Threads : get_speed_leaderboard_enrich(t)
    \/ \E t \in Threads : get_users(t)
    \/ \E t \in Threads : create_user(t)
    \/ \E t \in Threads : start_game(t)
    \/ \E t \in Threads : complete_game(t)
    \/ \E t \in Threads : complete_game_leaderboard(t)
    \/ \E t \in Threads : complete_game_session(t)
    \/ \E t \in Threads : save_progress(t)
    \/ \E t \in Threads : log_quantum_measurement(t)
    \/ \E t \in Threads : unlock_achievement(t)
    \/ \E t \in Threads : unlock_achievement_save(t)
    \/ \E t \in Threads : Respond(t)

Spec == Init /\ [][Next]_vars

\* SpecConcurrent: the server handles each request on a thread of its own, so
\* the steps of two signups interleave between their outbound calls.
InitConcurrent ==
    /\ configured = TRUE
    /\ workers = Threads
    /\ users = <<>>
    /\ leaderboard_entries = <<>>
    /\ game_sessions = <<>>
    /\ quantum_measurements = <<>>
    /\ user_achievements = <<>>
    /\ pc = [t \in Threads |-> "idle"]
    /\ req = [t \in Threads |-> NoReq]
    /\ loc = [t \in Threads |-> NoLoc]
    /\ calls = [t \in Threads |-> <<>>]
    /\ resp = [t \in Threads |-> NoResp]
    /\ served = 0

NextConcurrent ==
    \/ \E t \in Threads : signup(t)
    \/ \E t \in Threads : signup_create(t)
    \/ \E t \in Threads : signup_leaderboard(t)
    \/ \E t \in Threads : Respond(t)

SpecConcurrent == InitConcurrent /\ [][NextConcurrent]_vars

----------------------------------------------------------------------------
(* Properties *)

Done(t) == pc[t] = "done"

LeaderboardRoutes == {"leaderboard_score", "leaderboard_speed"}

\* the call did not come back with the status the handler accepts
Failed(c, accepted) == c.exc \/ c.status \notin accepted

\* the calls of thread t that write a user row
CreateUserCalls(t) ==
    {i \in 1..Len(calls[t]) :
        calls[t][i].method = "POST" /\ calls[t][i].table = "users"}

\* C1: whatever the store answers, the two leaderboard endpoints return a
\* non-empty entries list.
C1_EntriesNeverEmpty ==
    \A t \in Threads :
        Done(t) /\ req[t].route \in LeaderboardRoutes
        => resp[t].hasEntries /\ resp[t].entries # <<>>

\* C2: a signup whose email the store already held when the existence check
\* was made returns a failure and issues no create-user write, whatever the
\* status of the existence check.
C2_ExistingEmailNeverCreated ==
    \A t \in Threads :
        /\ req[t].route = "signup"
        /\ calls[t] # <<>>
        /\ calls[t][1].matched > 0
        => /\ CreateUserCalls(t) = {}
           /\ Done(t) => resp[t].success = "false"

\* C3: a login (or signin) POST without an email - field absent, empty, or no
\* JSON body - is answered with a 4xx failure and no outbound call.
C3_LoginWithoutEmailIs400 ==
    \A t \in Threads :
        /\ Done(t)
        /\ req[t].route \in {"login", "signin"}
        /\ req[t].method = "POST"
        /\ ~req[t].hasBody \/ req[t].email \in {"", NoneStr}
        => /\ resp[t].code >= 400 /\ resp[t].code < 500
           /\ resp[t].success = "false"
           /\ calls[t] = <<>>

C5_HealthReportsProbe ==
    \A t \in Threads :
        Done(t) /\ req[t].route = "health"
        => /\ resp[t].code = HTTP_OK /\ resp[t].message = "healthy"
           /\ Len(calls[t]) = 1
           /\ resp[t].database = "disconnected" <=> calls[t][1].exc
           /\ resp[t].database = "connected"
                 <=> ~calls[t][1].exc /\ calls[t][1].status = HTTP_OK
           /\ resp[t].database = "error"
                 <=> ~calls[t][1].exc /\ calls[t][1].status # HTTP_OK

C5_Witness ==
    \E t \in Threads :
        /\ Done(t) /\ req[t].route = "health"
        /\ ~calls[t][1].exc /\ calls[t][1].status # HTTP_OK
        /\ resp[t].database = "error"

\* the leaderboard_entries tier yielded nothing, or the store was unreachable
\* on it
FirstTierFailed(t) ==
    Failed(calls[t][1], {HTTP_OK}) \/ calls[t][1].matched = 0

\* the handler queried users ordered by the cumulative stat
UsersTierCalls(t) ==
    {i \in 1..Len(calls[t]) :
        /\ calls[t][i].method = "GET" /\ calls[t][i].table = "users"
        /\ calls[t][i].filter = "order=total_score.desc"}

\* C6: both leaderboards degrade in order: the answer comes from
\* leaderboard_entries when that query has rows; when it has none or the store
\* is unreachable on it the handler queries users by the cumulative stat; the
\* demo entries are returned only after both tiers failed.
C6_ThreeTiersInOrder ==
    \A t \in Threads :
        Done(t) /\ req[t].route \in LeaderboardRoutes
        => /\ resp[t].source = "database" => ~FirstTierFailed(t)
           /\ FirstTierFailed(t) => UsersTierCalls(t) = {2}
           /\ resp[t].source = "user_stats"
                 => FirstTierFailed(t) /\ ~Failed(calls[t][2], {HTTP_OK})
           /\ resp[t].source = "demo"
                 => /\ FirstTierFailed(t)
                    /\ UsersTierCalls(t) = {2}
                    /\ Failed(calls[t][2], {HTTP_OK}) \/ calls[t][2].matched = 0

\* C7: the leaderboards never surface a store failure: whichever outbound call
\* fails, the response is 200 with an entries payload and no error field.
C7_LeaderboardsHideFailures ==
    \A t \in Threads :
        Done(t) /\ req[t].route \in LeaderboardRoutes
        => /\ resp[t].code = HTTP_OK
           /\ resp[t].hasEntries
           /\ resp[t].error = "none"
           /\ resp[t].source \in {"database", "user_stats", "demo"}

\* a per-row user lookup raised after the aggregate query had answered
C7_Witness ==
    \E t \in Threads :
        /\ Done(t) /\ req[t].route \in LeaderboardRoutes
        /\ Len(calls[t]) >= 2
        /\ calls[t][Len(calls[t])].filter = "id=eq"
        /\ calls[t][Len(calls[t])].exc
        /\ resp[t].code = HTTP_OK /\ resp[t].source = "demo"

\* the create-user or fetch-user call of a required path failed
RequiredCallFailed(t) ==
    \/ /\ req[t].route = "signup"
       /\ \E i \in CreateUserCalls(t) :
             Failed(calls[t][i], {HTTP_OK, HTTP_CREATED})
    \/ /\ req[t].route = "users" /\ req[t].method = "POST"
       /\ calls[t] # <<>>
       /\ Failed(calls[t][1], {HTTP_OK, HTTP_CREATED})
    \/ /\ req[t].route \in {"login", "signin", "auth_user"}
       /\ calls[t] # <<>>
       /\ Failed(calls[t][1], {HTTP_OK})
    \/ /\ req[t].route = "users" /\ req[t].method = "GET"
       /\ calls[t] # <<>>
       /\ Failed(calls[t][1], {HTTP_OK})

\* C8: on the required paths a store that is unreachable or answers with a
\* status other than the accepted one gives a response with an error message,
\* a non-2xx status and no success envelope.
C8_RequiredFailuresPropagate ==
    \A t \in Threads :
        Done(t) /\ RequiredCallFailed(t)
        => /\ resp[t].error # "none"
           /\ ~Is2xx(resp[t].code)
           /\ resp[t].success # "true"

\* the calls of thread t are exactly these writes, in this order
Wrote(t, writes) ==
    /\ Len(calls[t]) = Len(writes)
    /\ \A i \in 1..Len(writes) :
          /\ calls[t][i].method = writes[i][1]
          /\ calls[t][i].table = writes[i][2]

LastCall(t) == calls[t][Len(calls[t])]

\* C9: the outcome of an optional side-write never changes the response:
\* signup, login, game complete, measurement log and achievement unlock give
\* the success response fixed by the request and the primary call, whether
\* the side-write succeeded, returned non-2xx or raised; game complete
\* attempts all three side-writes whatever became of the earlier ones.
C9_SideWritesNeverChangeResponse ==
    \A t \in Threads :
        Done(t) /\ calls[t] # <<>>
        => /\ req[t].route = "signup" /\ LastCall(t).table = "leaderboard_entries"
                 => resp[t] = Json([code |-> HTTP_OK, success |-> "true",
                                    message |-> "Account created successfully!",
                                    user_id |-> loc[t].user_id])
           /\ req[t].route \in {"login", "signin"} /\ LastCall(t).method = "PATCH"
                 => resp[t] = Json([code |-> HTTP_OK, success |-> "true",
                                    user_id |-> loc[t].user_id])
           /\ req[t].route = "game_complete"
                 => /\ resp[t] =
                          Json([code |-> HTTP_OK, success |-> "true",
                                message |-> "Game completed successfully!",
                                score |-> Get(req[t].total_score, DefaultTotalScore),
                                time |-> Get(req[t].completion_time,
                                             DefaultCompletionTime)])
                    /\ Wrote(t, << <<"PATCH", "users">>,
                                   <<"POST", "leaderboard_entries">>,
                                   <<"PATCH", "game_sessions">> >>)
           /\ req[t].route = "measurements"
                 => resp[t] = Json([code |-> HTTP_OK, success |-> "true",
                                    message |-> "Quantum measurement logged"])
           /\ req[t].route = "achievements"
              /\ LastCall(t).table = "user_achievements"
                 => resp[t] = Json([code |-> HTTP_OK, success |-> "true",
                                    message |-> "Achievement unlocked"])

\* a game completion whose user patch raised and whose leaderboard insert was
\* refused still patched the session and answered success
C9_Witness ==
    \E t \in Threads :
        /\ Done(t) /\ req[t].route = "game_complete"
        /\ Len(calls[t]) = 3
        /\ calls[t][1].exc
        /\ ~calls[t][2].exc /\ ~Is2xx(calls[t][2].status)
        /\ resp[t].success = "true"

DataRoutes ==
    {"leaderboard_score", "leaderboard_speed", "users", "auth_user", "login",
     "signin", "signup", "game_start", "game_complete", "save_progress",
     "measurements", "achievements"}

\* a request that carries what its handler requires of it
WellFormed(r) ==
    /\ r.method # "OPTIONS"
    /\ r.hasBody \/ r.method = "GET"
    /\ r.route \in {"login", "signin"} => r.email \notin {"", NoneStr}
    /\ r.route = "achievements" => r.user_id # NoId

\* C10: without the store URL / key configuration every data endpoint answers
\* with demo or static content, none with an error status.
C10_UnconfiguredServesDemo ==
    \A t \in Threads :
        /\ ~configured
        /\ Done(t)
        /\ req[t].route \in DataRoutes
        /\ WellFormed(req[t])
        => resp[t].code < 400 /\ resp[t].error = "none"

\* thread t takes the step that issues the users patch of a game completion,
\* and the store applies the patch
CompletionPatched(t) ==
    /\ pc[t] = "idle"
    /\ pc'[t] = "complete_leaderboard"
    /\ Applied(calls'[t][1])

\* the rows of users the patch of thread t's completion is addressed to
PatchedRows(t) ==
    {i \in 1..Len(users) : users[i].id = req'[t].user_id}

\* C11: a game completion whose user patch reached the store adds to the
\* stored stats: games_completed grows by one, total_score by the submitted
\* score and total_playtime by the submitted completion time, whatever
\* current_* fields the client did or did not send.  (Every completion adding
\* its share is what makes the totals after any sequence or interleaving the
\* prior values plus the sums.)
C11_CompletionIncrementsStats ==
    [][\A t \in Threads :
          CompletionPatched(t)
          => \A i \in PatchedRows(t) :
                /\ users'[i].games_completed = users[i].games_completed + 1
                /\ users'[i].total_score =
                      users[i].total_score
                      + Get(req'[t].total_score, DefaultTotalScore)
                /\ users'[i].total_playtime =
                      users[i].total_playtime
                      + Get(req'[t].completion_time, DefaultCompletionTime)]_vars

Min(a, b) == IF a <= b THEN a ELSE b

\* C12: a game completion with a non-zero completion_time whose user patch
\* reached the store leaves best_completion_time at the minimum of its
\* previous value (the new time when it was unset) and the submitted time.
C12_BestTimeIsMinimum ==
    [][\A t \in Threads :
          /\ CompletionPatched(t)
          /\ Get(req'[t].completion_time, DefaultCompletionTime) # 0
          => \A i \in PatchedRows(t) :
                LET ct == Get(req'[t].completion_time, DefaultCompletionTime)
                    prev == users[i].best_completion_time
                IN  users'[i].best_completion_time =
                       Min(IF prev = Absent THEN ct ELSE prev, ct)]_vars

\* the category a leaderboard route asks leaderboard_entries for
CategoryOf(route) ==
    IF route = "leaderboard_score" THEN "total_score" ELSE "completion_time"

\* entry e is row r of leaderboard_entries, placed at rank i
IsRowAt(e, r, i) ==
    /\ e.rank = i
    /\ e.user_id = r.user_id
    /\ e.total_score = r.total_score
    /\ e.completion_time = r.completion_time

\* C13: a leaderboard answered with source "database" or "user_stats" lists
\* exactly the rows the store returned, in the store's order, one entry per
\* row, ranked 1..n; a row whose user lookup came back non-200 or empty stays
\* in its place without display fields.
C13_EntriesAreStoreRows ==
    \A t \in Threads :
        Done(t) /\ req[t].route \in LeaderboardRoutes /\ resp[t].hasEntries
        => LET entries == resp[t].entries IN
           /\ resp[t].source = "database"
              => LET rows == QueryLeaderboard(CategoryOf(req[t].route)) IN
                 /\ Len(entries) = Len(rows)
                 /\ Len(calls[t]) = Len(rows) + 1
                 /\ \A i \in 1..Len(rows) :
                       /\ IsRowAt(entries[i], rows[i], i)
                       /\ (calls[t][i + 1].status # HTTP_OK
                           \/ calls[t][i + 1].matched = 0)
                          => entries[i].username = "none"
           /\ resp[t].source = "user_stats"
              => LET rows == QueryUsersByScore IN
                 /\ Len(entries) = Len(rows)
                 /\ \A i \in 1..Len(rows) :
                       /\ entries[i].rank = i
                       /\ entries[i].username = rows[i].username
                       /\ entries[i].total_score = rows[i].total_score
                       /\ entries[i].completion_time = rows[i].best_completion_time

\* a database leaderboard of two rows, returned in an order that is not the
\* table's, one row with its user found and one whose lookup was not a 200
C13_Witness ==
    \E t \in Threads :
        /\ Done(t) /\ req[t].route = "leaderboard_speed"
        /\ resp[t].source = "database"
        /\ Len(resp[t].entries) = 2
        /\ resp[t].entries[1].user_id # leaderboard_entries[1].user_id
        /\ \E i, j \in 1..2 :
              /\ calls[t][i + 1].status # HTTP_OK
              /\ resp[t].entries[i].username = "none"
              /\ resp[t].entries[j].username # "none"

\* thread t is serving a signup for email e whose existence check the store
\* answered with 200
SigningUp(t, e) ==
    /\ req[t].route = "signup" /\ req[t].hasBody /\ req[t].email = e
    /\ Len(calls[t]) >= 1
    /\ ~calls[t][1].exc /\ calls[t][1].status = HTTP_OK

\* the create-user writes of thread t that the store applied
AppliedCreates(t) == {i \in CreateUserCalls(t) : Applied(calls[t][i])}

\* thread t answered its signup with success
SignedUp(t) == Done(t) /\ resp[t].success = "true"

\* C14: of two signups with the same email served at the same time, against
\* a store that enforces no uniqueness and answers both existence checks, at
\* most one gets a create-user write into the store and at most one returns
\* success, so the store never holds two users with that email.
C14_OneSignupPerEmail ==
    \A e \in Emails : \A t1, t2 \in Threads :
        t1 # t2 /\ SigningUp(t1, e) /\ SigningUp(t2, e)
        => /\ AppliedCreates(t1) = {} \/ AppliedCreates(t2) = {}
           /\ ~(SignedUp(t1) /\ SignedUp(t2))
           /\ Len(UsersByEmail(e)) <= 1

\* the calls of thread t that write an achievement record
AchievementWrites(t) ==
    {i \in 1..Len(calls[t]) :
        calls[t][i].method = "POST" /\ calls[t][i].table = "user_achievements"}

\* the session lookups of thread t
SessionLookups(t) ==
    {i \in 1..Len(calls[t]) :
        calls[t][i].method = "GET" /\ calls[t][i].table = "game_sessions"}

\* the request of thread t gave no user_id and the session gives none either:
\* no session_id, or a lookup that raised, was not a 200, found no session, or
\* found one that names no user
Unresolved(t) ==
    /\ req[t].user_id = NoId
    /\ \/ req[t].session_id = NoId
       \/ \E i \in SessionLookups(t) :
             \/ Failed(calls[t][i], {HTTP_OK})
             \/ calls[t][i].matched = 0
             \/ SessionsById(req[t].session_id)[1].user_id = NoId

\* an achievement record is written only with a user_id, and the session is
\* looked up only for a request with a session_id and no user_id
UnlockWritesGuarded(t) ==
    /\ AchievementWrites(t) # {} => loc[t].user_id # NoId
    /\ SessionLookups(t) # {}
       => req[t].user_id = NoId /\ req[t].session_id # NoId
    /\ \A i \in 1..Len(user_achievements) : user_achievements[i].user_id # NoId

\* the answer to an unlock that cannot name its user
UserIdRequired(t) ==
    /\ resp[t].code = HTTP_BAD_REQUEST
    /\ resp[t].error = "User ID required"
    /\ AchievementWrites(t) = {}

\* C15: POST /api/achievements/unlock writes a user_achievements record only
\* with a non-empty user_id; the session lookup is issued only when user_id
\* is absent and session_id is present; a request that gave no user_id and
\* whose session resolves none is answered 400 "User ID required" and issues
\* no write.
C15_UnlockNeedsUserId ==
    \A t \in Threads :
        req[t].route = "achievements"
        => /\ UnlockWritesGuarded(t)
           /\ Done(t) /\ Unresolved(t) => UserIdRequired(t)

\* what remains of C15 for requests that carry a JSON object body
C15_UnlockWithBody ==
    \A t \in Threads :
        req[t].route = "achievements"
        => /\ UnlockWritesGuarded(t)
           /\ Done(t) /\ req[t].hasBody /\ Unresolved(t) => UserIdRequired(t)
           /\ Done(t) /\ ~req[t].hasBody
              => /\ resp[t].code = HTTP_SERVER_ERROR
                 /\ calls[t] = <<>>

====
